---- MODULE Spec2Model ----
(***************************************************************************)
(* Document discovery engine of fiscal-test: the resilient HTTP client     *)
(* (src/pkg/http_client.py), the queue-based crawler                       *)
(* (src/pkg/html_processor.py), the ranker (src/pkg/reports_ranker.py) and *)
(* the searcher that runs them per company                                 *)
(* (src/processors/search_reports.py).                                     *)
(*                                                                         *)
(* Strings are modelled as sequences of lower-case tokens: a URL is a      *)
(* record of host labels, port, directory tokens, file-name tokens and     *)
(* extension; a link text, a title and a header file name are token        *)
(* sequences.  Python's `keyword in text` becomes "some token of the text  *)
(* contains the keyword".                                                  *)
(***************************************************************************)
EXTENDS Integers, Sequences, FiniteSets, TLC

VARIABLES
    url_queue,          \* HTMLPageProcessor.url_queue: deque of (url, depth)
    visited_urls,       \* HTMLPageProcessor.visited_urls
    found_documents,    \* HTMLPageProcessor.found_documents
    base_domain,        \* HTMLPageProcessor.base_domain
    max_depth,          \* HTMLPageProcessor.max_depth
    problematic_urls,   \* HTTPClient.problematic_urls
    pc,                 \* position of the program: "idle", "crawling", "done"
                        \* (find_annual_reports returned), "ranked", "extracted"
    result,             \* the list find_annual_reports returned last
    crawls,             \* number of find_annual_reports calls started on this crawler
    requests,           \* observation: url -> number of make_request calls in this crawl
    last,               \* observation: how the last loop iteration of find_annual_reports ended
    last_call,          \* observation: the last make_request call made directly on the client
    seed_soup,          \* observation: the links of the page the seed of this crawl answered with
    years_back,         \* AnnualReportSearcher.years_back
    current_year,       \* datetime.now().year
    min_year,           \* AnnualReportSearcher.min_year
    reports,            \* the reports given to process_company_reports for the current company
    ranked_reports,     \* what rank_reports_for_company returned: year -> [(score, report)]
    selection,          \* what process_company_reports returned for the current company
    year_text,          \* the text given to _extract_year_from_text, character by character
    year_found,         \* what _extract_year_from_text returned
    checked_url,        \* the url given to _check_headers_for_documents on its own
    checked_headers,    \* response.headers of the request _check_headers_for_documents makes
    companies,          \* the list given to search_all_companies
    searched,           \* number of companies search_all_companies is done with
    all_selections,     \* search_all_companies: ticker -> selection
    extractable,        \* the URLs whose content the PDF / XLSX extractors can extract
    processed_documents, \* what ReportProcessor.process_company_reports returned
    resume_from,        \* the argument of execute_pipeline
    prereq_success,     \* what check_prerequisites returns
    program_results,    \* PipelineExecutor.program_results, in the order the programs ran
    stats,              \* PipelineExecutor.stats: successful_programs, failed_programs
    pipeline_return,    \* how execute_pipeline ended
    exit_status         \* what main returned to sys.exit

\* the state outside the crawler and the HTTP client
searcher_vars == <<years_back, current_year, min_year>>
ranker_vars == <<reports, ranked_reports, selection>>
year_vars == <<year_text, year_found>>
header_vars == <<checked_url, checked_headers>>
batch_vars == <<companies, searched, all_selections>>
processor_vars == <<extractable, processed_documents>>
pipeline_vars == <<resume_from, prereq_success, program_results, stats,
                   pipeline_return, exit_status>>
other_vars == <<header_vars, batch_vars, processor_vars, pipeline_vars>>

\* the state of the crawler and of its HTTP client, pc apart
crawler_vars == <<url_queue, visited_urls, found_documents, base_domain, max_depth,
                  problematic_urls, result, crawls, requests, last, last_call,
                  seed_soup>>

vars == <<url_queue, visited_urls, found_documents, base_domain, max_depth,
          problematic_urls, pc, result, crawls, requests, last, last_call,
          seed_soup, searcher_vars, ranker_vars, year_vars, other_vars>>

-----------------------------------------------------------------------------
(* Bounds of the model *)

MaxCrawls == 2       \* find_annual_reports calls on one crawler
MaxReports == 4      \* reports given to the ranker for one company
MaxTextLen == 6      \* characters of a text given to _extract_year_from_text
MaxCompanies == 3    \* companies given to search_all_companies

-----------------------------------------------------------------------------
(* Strings *)

\* Python None / '' of an Optional[int] year (both falsy)
NoYear == 0

\* keyword k occurs inside token t although k # t
KnownSubstrings ==
    { <<"quarter", "quarterly">>, <<"annual", "annual-report">>,
      <<"report", "annual-report">>, <<"report", "reports">>,
      <<"half", "half-year">>, <<"20", "20f">>, <<"20", "2021">>,
      <<"20", "2022">>, <<"20", "2023">>, <<"excel", "ms-excel">> }

\* some keyword of ks occurs in token t
Matches(ks, t) ==
    t \in ks \/ \E pair \in KnownSubstrings : pair[2] = t /\ pair[1] \in ks

\* any(keyword in text for keyword in ks)
AnyKeywordIn(ks, text) == \E i \in 1..Len(text) : Matches(ks, text[i])

\* the pairs of KnownSubstrings in which the keyword ends the token; in all
\* the others it begins the token
KnownSuffixes == { <<"report", "annual-report">> }

StartsWith(t, k) == t = k \/ <<k, t>> \in KnownSubstrings \ KnownSuffixes

EndsWith(t, k) == t = k \/ <<k, t>> \in KnownSuffixes

\* `phrase in text` for a keyword of one word or of two words with a blank
\* between them; spaced tells whether blanks separate the tokens of the text
\* (the words of a title) or not (the parts of a URL)
PhraseIn(phrase, text, spaced) ==
    IF Len(phrase) = 1 THEN AnyKeywordIn({phrase[1]}, text)
    ELSE /\ spaced
         /\ \E i \in 1..(Len(text) - 1) :
               EndsWith(text[i], phrase[1]) /\ StartsWith(text[i + 1], phrase[2])

-----------------------------------------------------------------------------
(* URLs *)

Url(host, port, dirs, file, ext) ==
    [host |-> host, port |-> port, dirs |-> dirs, file |-> file, ext |-> ext]

\* the empty URL string / None
NoUrl == Url(<<>>, 0, <<>>, <<>>, "")

\* url.lower() as text to search keywords in
UrlText(u) ==
    u.host \o u.dirs \o u.file \o (IF u.ext = "" THEN <<>> ELSE <<u.ext>>)

\* the last path part of a URL, with its extension
LastPart(u) == u.file \o (IF u.ext = "" THEN <<>> ELSE <<u.ext>>)

ExampleHost == <<"a", "example", "com">>

SeedUrl == Url(ExampleHost, 0, <<>>, <<"x">>, "")
InvestorsUrl == Url(<<"investors", "example", "com">>, 8080, <<>>, <<"x">>, "")
EvilUrl == Url(<<"evil", "com">>, 0, <<>>, <<"z">>, "")
AnnualPdfUrl == Url(ExampleHost, 0, <<>>, <<"annual", "2022">>, "pdf")
QuarterAnnualPdfUrl == Url(ExampleHost, 0, <<>>, <<"annual", "q3">>, "pdf")
CareersUrl == Url(ExampleHost, 0, <<"careers">>, <<"jobs">>, "")
CareersPdfUrl == Url(ExampleHost, 0, <<"careers">>, <<"annual">>, "pdf")

Seeds == {SeedUrl, InvestorsUrl}

-----------------------------------------------------------------------------
(* Links: the <a> elements of a parsed page *)

\* href kinds: "abs" an absolute URL; "rel" an absolute-path reference such as
\* "/x"; "mailto" a non-web link; "bad" an href urljoin rejects with ValueError
\* (e.g. "http://[bad/annual.pdf"), whose url field only tells how it ends.
Href(kind, url) == [kind |-> kind, url |-> url]

Link(href, text, title) == [present |-> TRUE, href |-> href, text |-> text, title |-> title]

\* link=None
NoLink == [present |-> FALSE, href |-> Href("abs", NoUrl), text |-> <<>>, title |-> <<>>]

\* urllib.parse.urljoin(base_url, href), for the hrefs that do not raise
urljoin(base_url, href) ==
    IF href.kind = "rel"
    THEN [href.url EXCEPT !.host = base_url.host, !.port = base_url.port]
    ELSE href.url

ToSeed == Link(Href("abs", SeedUrl), <<"overview">>, <<>>)
ToInvestors == Link(Href("abs", InvestorsUrl), <<"investors">>, <<>>)
ToEvil == Link(Href("abs", EvilUrl), <<"partner">>, <<>>)
ToCareers == Link(Href("abs", CareersUrl), <<"jobs">>, <<>>)
ToHome == Link(Href("rel", Url(<<>>, 0, <<>>, <<"x">>, "")), <<"home">>, <<>>)
ToAnnualPdf == Link(Href("abs", AnnualPdfUrl), <<"annual", "report", "2022", "pdf">>, <<>>)
ToQuarterPdf == Link(Href("abs", QuarterAnnualPdfUrl), <<"annual", "report">>, <<>>)
ToCareersPdf == Link(Href("abs", CareersPdfUrl), <<"annual", "report">>, <<>>)
BadPdf == Link(Href("bad", Url(<<>>, 0, <<>>, <<"annual">>, "pdf")), <<"annual">>, <<>>)
BadLink == Link(Href("bad", Url(<<>>, 0, <<>>, <<"x">>, "")), <<"broken">>, <<>>)

\* a page whose only document links are an annual report and a quarterly one
AnnualAndQuarterlyPage == <<ToAnnualPdf, ToQuarterPdf>>

\* soup.find_all('a', href=True) of the pages a fetch can return; every URL
\* can answer with every one of them
Pages ==
    { <<>>,
      AnnualAndQuarterlyPage,
      <<ToSeed, ToInvestors, ToHome, ToEvil, ToCareers, ToCareersPdf>>,
      <<ToInvestors, ToAnnualPdf>>,
      <<ToAnnualPdf, BadPdf, ToInvestors>>,
      <<ToInvestors, BadLink, ToAnnualPdf>> }

\* Content-Disposition / Content-Description values: absent, without a
\* filename= part, or carrying a file name
HeaderValue(present, filename) == [present |-> present, filename |-> filename]

ResponseHeaders(d, e, t) == [disposition |-> d, description |-> e, content_type |-> t]

NoHeader == HeaderValue(FALSE, <<>>)
AnnualAttachment == HeaderValue(TRUE, <<"annual", "report", "2021", "pdf">>)
QuarterAttachment == HeaderValue(TRUE, <<"q1", "results", "pdf">>)

NoHeaders == ResponseHeaders(NoHeader, NoHeader, <<"text", "html">>)

\* response.headers of the pages a fetch can return
Headers ==
    { NoHeaders,
      ResponseHeaders(AnnualAttachment, QuarterAttachment, <<"text", "html">>),
      ResponseHeaders(NoHeader, NoHeader, <<"application", "pdf">>) }

-----------------------------------------------------------------------------
(* Link classifier *)

ignore_paths ==
    { "careers", "contact", "contact-us", "about", "news", "press",
      "media", "blog", "support", "help", "faq", "terms", "privacy",
      "legal", "cookies", "sitemap", "search", "login", "register",
      "account", "profile", "settings", "cart", "checkout", "shop",
      "store", "products", "services", "solutions", "technology",
      "innovation", "research", "development", "sustainability",
      "environment", "social", "governance", "esg", "community",
      "foundation", "charity", "donate", "volunteer", "events",
      "webinar", "conference", "training", "education", "university",
      "partnership", "alliance", "network", "membership", "awards",
      "recognition", "testimonials", "case-study", "success-story",
      "gallery", "photos", "videos", "podcast", "webcast", "live",
      "stream", "broadcast", "tv", "radio", "magazine", "newsletter",
      "subscription", "rss", "feed", "developer", "docs",
      "documentation", "guide", "tutorial", "manual", "handbook",
      "whitepaper", "ebook", "brochure", "catalog", "portfolio",
      "showcase", "demo", "trial", "free", "premium", "pro",
      "enterprise", "business", "corporate", "institutional" }

social_domains ==
    { <<"facebook", "com">>, <<"fb", "com">>, <<"instagram", "com">>,
      <<"twitter", "com">>, <<"x", "com">>, <<"linkedin", "com">>,
      <<"youtube", "com">>, <<"youtu", "be">>, <<"tiktok", "com">>,
      <<"snapchat", "com">>, <<"pinterest", "com">>, <<"reddit", "com">>,
      <<"telegram", "org">>, <<"whatsapp", "com">>, <<"wechat", "com">>,
      <<"weibo", "com">>, <<"vk", "com">>, <<"tumblr", "com">>,
      <<"flickr", "com">>, <<"vimeo", "com">> }

social_keywords ==
    { "facebook", "instagram", "twitter", "linkedin", "youtube",
      "follow us", "like us", "share", "social media", "connect with us" }

get_quarterly_keywords ==
    { "q1", "q2", "q3", "q4", "h1", "h2", "h3", "h4",
      "quarterly", "quarter", "half yearly",
      "half year", "half-yearly", "half-year", "half" }

get_annual_keywords ==
    { "annual", "yearly", "year-end", "annual-report", "annual_report", "financial-report",
      "financial statements", "consolidated", "statements", "integrated",
      "balance sheet", "income statement", "cash flow", "profit and loss",
      "p&l", "accounts", "financial report", "balance", "income", "cash",
      "profit", "loss", "sheet", "flow", "report", "financial" }

\* the tokens of a URL that directly follow a "/"
AfterSlash(u) ==
    (IF u.host = <<>> THEN {} ELSE {u.host[1]})
    \cup {u.dirs[i] : i \in 1..Len(u.dirs)}
    \cup (IF u.file = <<>> THEN {} ELSE {u.file[1]})

should_skip_url(url) ==
    \E t \in AfterSlash(url) : Matches(ignore_paths, t)

is_social_media_link(href, link_text) ==
    \/ \E i \in 1..(Len(href.url.host) - 1) :
          <<href.url.host[i], href.url.host[i + 1]>> \in social_domains
    \/ AnyKeywordIn(social_keywords, link_text)

is_quarter_report(link, url) ==
    LET link_text == IF link.present THEN link.text ELSE <<>>
        url_lower == UrlText(url)
    IN  \/ AnyKeywordIn(get_quarterly_keywords, link_text)
        \/ AnyKeywordIn(get_quarterly_keywords, url_lower)

EndsWithDocExt(text) ==
    text # <<>> /\ text[Len(text)] \in {"pdf", "xlsx"}

\* _is_annual_report(text, url, filename, link); an absent argument is
\* <<>> / NoUrl / NoLink
is_annual_report(text0, url0, filename, link) ==
    LET text == IF link.present THEN link.text ELSE text0
        url == IF link.present /\ url0 = NoUrl THEN link.href.url ELSE url0
        all_text == (IF text # <<>> THEN {text} ELSE {})
                    \cup (IF url # NoUrl THEN {UrlText(url)} ELSE {})
                    \cup (IF filename # <<>> THEN {filename} ELSE {})
    IN  IF is_quarter_report(link, url) THEN FALSE
        ELSE IF filename # <<>> /\ AnyKeywordIn(get_quarterly_keywords, filename) THEN FALSE
        ELSE IF filename # <<>> /\ ~EndsWithDocExt(filename) THEN FALSE
        ELSE IF url # NoUrl /\ filename = <<>> /\ url.ext \notin {"pdf", "xlsx"} THEN FALSE
        ELSE \E part \in all_text : AnyKeywordIn(get_annual_keywords, part)

YearOfToken(t) ==
    CASE t = "2021" -> 2021
      [] t = "2022" -> 2022
      [] t = "2023" -> 2023
      [] OTHER -> NoYear

RECURSIVE extract_year_from_text(_)
extract_year_from_text(text) ==
    IF text = <<>> THEN NoYear
    ELSE IF YearOfToken(text[Len(text)]) # NoYear THEN YearOfToken(text[Len(text)])
    ELSE extract_year_from_text(SubSeq(text, 1, Len(text) - 1))

extract_year_from_link(link, url) ==
    LET year == extract_year_from_text(link.text)
    IN  IF year # NoYear THEN year ELSE extract_year_from_text(UrlText(url))

extract_base_domain(url) ==
    LET parts == url.host
    IN  IF Len(parts) >= 2 THEN SubSeq(parts, Len(parts) - 1, Len(parts)) ELSE parts

\* fault for C3: the domain check lets every URL through
is_same_domain_any(url, base) == TRUE

is_same_domain(url, base) ==
    IF base = <<>> THEN TRUE ELSE extract_base_domain(url) = base

-----------------------------------------------------------------------------
(* HTTPClient.make_request *)

max_retries == 3
base_delay == 1

\* what one session.get + raise_for_status does: "ok" returns a response,
\* "transient" raises ConnectionError / Timeout / ChunkedEncodingError,
\* "other" raises any other RequestException (e.g. HTTPError for a non-2xx status)
AttemptKinds == {"ok", "transient", "other"}

\* the outcomes of the successive attempts on one URL
Outcomes == [1..max_retries -> AttemptKinds]

\* the outcomes the crawler's requests meet: a page that answers, a host that
\* is down, a page that answers with an error status
SteadyOutcomes == { [i \in 1..max_retries |-> k] : k \in AttemptKinds }

\* fault for C6: the exponent of the backoff is one too high
BackoffOffByOne(attempt) == base_delay * (2 ^ (attempt + 1))

\* delay = base_delay * (2 ** attempt)
Backoff(attempt) == base_delay * (2 ^ attempt)

CallResult(response, attempts, delays, problematic) ==
    [response |-> response, attempts |-> attempts, delays |-> delays,
     problematic |-> problematic]

\* fault for C7: every RequestException is retried like a transient one
RECURSIVE RequestLoopRetryingAll(_, _, _, _, _)
RequestLoopRetryingAll(url, outcomes, attempt, delays, problematic) ==
    IF attempt >= max_retries
    THEN CallResult(FALSE, attempt, delays, problematic)
    ELSE IF outcomes[attempt + 1] = "ok"
    THEN CallResult(TRUE, attempt + 1, delays, problematic)
    ELSE IF attempt < max_retries - 1
    THEN RequestLoopRetryingAll(url, outcomes, attempt + 1,
                                Append(delays, Backoff(attempt)), problematic)
    ELSE CallResult(FALSE, attempt + 1, delays, problematic \cup {url})

\* the loop `for attempt in range(max_retries)`, from iteration `attempt` on;
\* attempts counts the session.get calls made, delays lists the time.sleep calls
RECURSIVE RequestLoop(_, _, _, _, _)
RequestLoop(url, outcomes, attempt, delays, problematic) ==
    IF attempt >= max_retries
    THEN CallResult(FALSE, attempt, delays, problematic)
    ELSE CASE outcomes[attempt + 1] = "ok" ->
                CallResult(TRUE, attempt + 1, delays, problematic)
           [] outcomes[attempt + 1] = "transient" ->
                IF attempt < max_retries - 1
                THEN RequestLoop(url, outcomes, attempt + 1,
                                 Append(delays, Backoff(attempt)), problematic)
                ELSE CallResult(FALSE, attempt + 1, delays, problematic \cup {url})
           [] OTHER ->
                CallResult(FALSE, attempt + 1, delays, problematic \cup {url})

\* fault for C5: the known-bad set is not consulted
make_request_without_skip(url, outcomes, problematic) ==
    RequestLoop(url, outcomes, 0, <<>>, problematic)

\* make_request(url): response is FALSE for the None result
make_request(url, outcomes, problematic) ==
    IF url \in problematic
    THEN CallResult(FALSE, 0, <<>>, problematic)
    ELSE RequestLoop(url, outcomes, 0, <<>>, problematic)

-----------------------------------------------------------------------------
(* HTMLPageProcessor *)

DefaultMaxDepth == 2

ExtractedDocument(url, title, year) == [url |-> url, title |-> title, year |-> year]

\* the None result of _process_document_link
NoDocument == ExtractedDocument(NoUrl, <<>>, NoYear)

\* _extract_filename_from_disposition: the filename= part, None (<<>>) without one
extract_filename_from_disposition(value) == value.filename

\* _extract_filename_from_url(url) or url.split('/')[-1]
FilenameOfUrl(url) == LastPart(url)

\* one pass of the loop over ['Content-Disposition', 'Content-Description']
HeaderDocument(url, value, found) ==
    LET filename == extract_filename_from_disposition(value)
    IN  IF value.present /\ filename # <<>>
           /\ is_annual_report(<<>>, NoUrl, filename, NoLink)
        THEN Append(found, ExtractedDocument(url, filename, extract_year_from_text(filename)))
        ELSE found

\* the Content-Type part of _check_headers_for_documents
ContentTypeDocument(url, content_type, found) ==
    LET filename == FilenameOfUrl(url)
        y1 == extract_year_from_text(filename)
        year == IF y1 # NoYear THEN y1 ELSE extract_year_from_text(UrlText(url))
    IN  IF AnyKeywordIn({"pdf", "excel", "spreadsheet"}, content_type)
           /\ is_annual_report(<<>>, url, filename, NoLink)
        THEN Append(found, ExtractedDocument(url, filename, year))
        ELSE found

\* _check_headers_for_documents(url), given the response of its own request
check_headers_for_documents(url, headers, found) ==
    ContentTypeDocument(url, headers.content_type,
        HeaderDocument(url, headers.description,
            HeaderDocument(url, headers.disposition, found)))

\* _process_document_link(link, base_url, file_type), urljoin not raising
process_document_link(link, base_url, file_type, found) ==
    LET full_url == urljoin(base_url, link.href)
        year == extract_year_from_link(link, full_url)
        title0 == IF link.text # <<>> THEN link.text ELSE link.title
        title == IF title0 # <<>> /\ title0[Len(title0)] = file_type
                 THEN SubSeq(title0, 1, Len(title0) - 1) ELSE title0
    IN  IF \E i \in 1..Len(found) : found[i].url = full_url THEN NoDocument
        ELSE IF is_quarter_report(link, full_url) THEN NoDocument
        ELSE IF is_annual_report(<<>>, full_url, <<>>, link)
             THEN ExtractedDocument(full_url, title, year)
             ELSE NoDocument

Outcome(found, queue, raised) == [found |-> found, queue |-> queue, raised |-> raised]

\* the loop over pdf_links (file_type "pdf") or xlsx_links (file_type "xlsx");
\* urljoin raises ValueError on a "bad" href and ends _find_direct_documents
RECURSIVE DocumentLoop(_, _, _, _)
DocumentLoop(links, base_url, file_type, found) ==
    IF links = <<>> THEN Outcome(found, <<>>, FALSE)
    ELSE IF Head(links).href.kind = "bad" THEN Outcome(found, <<>>, TRUE)
    ELSE LET doc == process_document_link(Head(links), base_url, file_type, found)
         IN  DocumentLoop(Tail(links), base_url, file_type,
                          IF doc = NoDocument THEN found ELSE Append(found, doc))

\* soup.find_all('a', href=re.compile(r'\.pdf$')) and the same for xlsx
LinksEndingIn(soup, ext) == SelectSeq(soup, LAMBDA link : link.href.url.ext = ext)

\* _find_direct_documents(base_url, soup)
find_direct_documents(base_url, soup, found) ==
    LET pdf == DocumentLoop(LinksEndingIn(soup, "pdf"), base_url, "pdf", found)
    IN  IF pdf.raised THEN pdf
        ELSE DocumentLoop(LinksEndingIn(soup, "xlsx"), base_url, "xlsx", pdf.found)

\* fault for C25: a new link is put at the head of the queue
QueueLinkAtFront(link, link_url, next_depth, queue, visited, base) ==
    IF ~is_same_domain(link_url, base) THEN queue
    ELSE IF should_skip_url(link_url) THEN queue
    ELSE IF link_url \in visited THEN queue
    ELSE IF \E i \in 1..Len(queue) : queue[i].url = link_url THEN queue
    ELSE <<[url |-> link_url, depth |-> next_depth]>> \o queue

\* one pass of the loop of _find_and_queue_links: the link is appended or skipped
QueueLink(link, link_url, next_depth, queue, visited, base) ==
    IF ~is_same_domain(link_url, base) THEN queue
    ELSE IF should_skip_url(link_url) THEN queue
    ELSE IF link_url \in visited THEN queue
    ELSE IF \E i \in 1..Len(queue) : queue[i].url = link_url THEN queue
    ELSE Append(queue, [url |-> link_url, depth |-> next_depth])

\* _find_and_queue_links(base_url, soup, current_depth)
RECURSIVE find_and_queue_links(_, _, _, _, _, _)
find_and_queue_links(base_url, links, current_depth, queue, visited, base) ==
    IF links = <<>> THEN Outcome(<<>>, queue, FALSE)
    ELSE LET link == Head(links)
             rest == Tail(links)
         IN  IF link.text = <<>> \/ link.href.kind = "mailto"
                \/ is_social_media_link(link.href, link.text)
             THEN find_and_queue_links(base_url, rest, current_depth, queue, visited, base)
             ELSE IF link.href.kind = "bad" THEN Outcome(<<>>, queue, TRUE)
             ELSE find_and_queue_links(base_url, rest, current_depth,
                     QueueLink(link, urljoin(base_url, link.href), current_depth + 1,
                               queue, visited, base),
                     visited, base)

\* fault for C4: links are followed from pages at max_depth too
ProcessPageOffByOne(url, depth, soup, headers, r2, found, queue, visited, base, maxd) ==
    LET found1 == IF r2.response THEN check_headers_for_documents(url, headers, found)
                  ELSE found
        docs == find_direct_documents(url, soup, found1)
    IN  IF docs.raised THEN Outcome(docs.found, queue, TRUE)
        ELSE IF depth <= maxd
             THEN LET q == find_and_queue_links(url, soup, depth, queue, visited, base)
                  IN  Outcome(docs.found, q.queue, q.raised)
             ELSE Outcome(docs.found, queue, FALSE)

\* the body of _process_url_from_queue after a successful fetch and parse:
\* headers (its own request answered r2), direct documents, then the links
ProcessPage(url, depth, soup, headers, r2, found, queue, visited, base, maxd) ==
    LET found1 == IF r2.response THEN check_headers_for_documents(url, headers, found)
                  ELSE found
        docs == find_direct_documents(url, soup, found1)
    IN  IF docs.raised THEN Outcome(docs.found, queue, TRUE)
        ELSE IF depth < maxd
             THEN LET q == find_and_queue_links(url, soup, depth, queue, visited, base)
                  IN  Outcome(docs.found, q.queue, q.raised)
             ELSE Outcome(docs.found, queue, FALSE)

\* what one call of _process_url_from_queue leaves behind: requested is the
\* number of make_request calls it made, status how it ended
Processed(found, queue, problematic, requested, status) ==
    [found |-> found, queue |-> queue, problematic |-> problematic,
     requested |-> requested, status |-> status]

\* _process_url_from_queue(url, current_depth); o1 and o2 are what the network
\* answers to its two requests, parse_raises whether BeautifulSoup raises,
\* soup and headers what the page holds
process_url_from_queue(url, depth, o1, parse_raises, o2, soup, headers, found, queue, visited, problematic, base, maxd) ==
    LET r1 == make_request(url, o1, problematic)
        r2 == make_request(url, o2, r1.problematic)
        out == ProcessPage(url, depth, soup, headers, r2, found, queue, visited, base, maxd)
    IN  IF ~r1.response
        THEN Processed(found, queue, r1.problematic, 1, "fetch_failed")
        ELSE IF parse_raises
        THEN Processed(found, queue, r1.problematic, 1, "exception")
        ELSE Processed(out.found, out.queue, r2.problematic, 2,
                       IF out.raised THEN "exception" ELSE "ok")

Count(url) == IF url \in DOMAIN requests THEN requests[url] ELSE 0

\* requests with n more make_request calls for url
Requested(url, n) ==
    [u \in DOMAIN requests \cup {url} |->
        IF u = url THEN Count(u) + n ELSE requests[u]]

NoCall == [url |-> NoUrl, known_bad |-> FALSE, outcomes |-> <<>>,
           response |-> FALSE, attempts |-> 0, delays |-> <<>>]

\* no page fetched and parsed yet
NoPage == <<NoLink>>

-----------------------------------------------------------------------------
(* AnnualReportSearcher: the year window *)

DefaultYearsBack == 10

\* datetime.now().year of the run
ThisYear == 2023

\* _calculate_min_year
calculate_min_year(now, back) == now - back - 1

\* the years a run can happen in and the years_back it can be given: in the
\* first the window is the year before the run, in the second the ten years
\* before the year before the run
SearcherConfigs ==
    { [current_year |-> ThisYear, years_back |-> 0],
      [current_year |-> ThisYear - 1, years_back |-> DefaultYearsBack] }

\* fault for C19: the current year is let through
filter_documents_by_year_inclusive(documents, least, now) ==
    SelectSeq(documents,
              LAMBDA doc : doc.year # NoYear /\ least <= doc.year /\ doc.year <= now)

\* _filter_documents_by_year(documents) with self.min_year = least and
\* datetime.now().year = now
filter_documents_by_year(documents, least, now) ==
    SelectSeq(documents,
              LAMBDA doc : doc.year # NoYear /\ least <= doc.year /\ doc.year < now)

-----------------------------------------------------------------------------
(* ReportsRanker *)

\* the selection of a company not ranked yet, and of one without reports
NoSelection == [years_covered |-> <<>>, reports |-> <<>>]

priority_keywords ==
    << <<"form", "20f">>, <<"20-f">>, <<"20f">>, <<"form20f">>,
       <<"annual", "report">>, <<"annual">>, <<"yearly">>,
       <<"financial", "report">>, <<"consolidated">>,
       <<"statements">>, <<"accounts">> >>

quarterly_keywords == {"q1", "q2", "q3", "q4", "quarterly", "quarter"}

\* the file type priority of _calculate_report_score
FileTypeScore(url) ==
    IF url.ext = "xlsx" THEN 200 ELSE IF url.ext = "pdf" THEN 100 ELSE 0

\* the loop over priority_keywords from index i on: the first keyword found
\* in the title or the URL scores, the others are not looked at
RECURSIVE PriorityScore(_, _, _)
PriorityScore(title, url, i) ==
    IF i > Len(priority_keywords) THEN 0
    ELSE IF PhraseIn(priority_keywords[i], title, TRUE)
            \/ PhraseIn(priority_keywords[i], UrlText(url), FALSE)
         THEN (Len(priority_keywords) - (i - 1)) * 10
         ELSE PriorityScore(title, url, i + 1)

\* the bonus points and the transparency/disclosure penalty
IndicatorScore(title) ==
    (IF AnyKeywordIn({"form"}, title) /\ AnyKeywordIn({"20"}, title) THEN 50 ELSE 0)
    + (IF AnyKeywordIn({"annual"}, title) THEN 30 ELSE 0)
    + (IF AnyKeywordIn({"consolidated"}, title) THEN 20 ELSE 0)
    + (IF AnyKeywordIn({"financial"}, title) THEN 15 ELSE 0)
    + (IF AnyKeywordIn({"statements"}, title) THEN 10 ELSE 0)
    - (IF AnyKeywordIn({"transparency", "disclosure"}, title) THEN 25 ELSE 0)

\* fault for C17: the loop stops at the first quarterly keyword that occurs
QuarterlyPenaltyOnce(title, url) ==
    IF \E k \in quarterly_keywords :
          AnyKeywordIn({k}, title) \/ AnyKeywordIn({k}, UrlText(url))
    THEN 100 ELSE 0

\* the loop over quarterly_keywords: 100 for every keyword that occurs in
\* the title or the URL
QuarterlyPenalty(title, url) ==
    100 * Cardinality({ k \in quarterly_keywords :
                          AnyKeywordIn({k}, title) \/ AnyKeywordIn({k}, UrlText(url)) })

\* fault for C16: the two file types score the same
calculate_report_score_flat(report) ==
    100 + PriorityScore(report.title, report.url, 1) + IndicatorScore(report.title)
        - QuarterlyPenalty(report.title, report.url)

\* _calculate_report_score(report)
calculate_report_score(report) ==
    FileTypeScore(report.url) + PriorityScore(report.title, report.url, 1)
        + IndicatorScore(report.title) - QuarterlyPenalty(report.title, report.url)

\* fault for C12: an entry goes before the entries of the same score
InsertByScoreUnstable(scored, entry) ==
    LET n == Cardinality({ i \in 1..Len(scored) : scored[i].score > entry.score })
    IN  SubSeq(scored, 1, n) \o <<entry>> \o SubSeq(scored, n + 1, Len(scored))

\* where list.sort(key=score, reverse=True) leaves an entry that came after
\* the entries of scored: behind every entry that scores as much or more
InsertByScore(scored, entry) ==
    LET n == Cardinality({ i \in 1..Len(scored) : scored[i].score >= entry.score })
    IN  SubSeq(scored, 1, n) \o <<entry>> \o SubSeq(scored, n + 1, Len(scored))

\* scored_reports.sort(key=lambda x: x[0], reverse=True)
RECURSIVE SortByScore(_)
SortByScore(scored) ==
    IF scored = <<>> THEN <<>>
    ELSE InsertByScore(SortByScore(SubSeq(scored, 1, Len(scored) - 1)),
                       scored[Len(scored)])

\* _rank_reports_for_year(year_reports)
rank_reports_for_year(year_reports) ==
    SortByScore([ i \in 1..Len(year_reports) |->
                    [score |-> calculate_report_score(year_reports[i]),
                     report |-> year_reports[i]] ])

\* fault for C15: reports without a year are grouped like the others
rank_reports_for_company_any_year(company_reports) ==
    [ y \in { company_reports[i].year : i \in 1..Len(company_reports) } |->
        rank_reports_for_year(SelectSeq(company_reports, LAMBDA r : r.year = y)) ]

\* rank_reports_for_company(ticker, reports): the dict year -> ranked reports
rank_reports_for_company(company_reports) ==
    [ y \in { company_reports[i].year : i \in 1..Len(company_reports) } \ {NoYear} |->
        rank_reports_for_year(SelectSeq(company_reports, LAMBDA r : r.year = y)) ]

\* sorted(ranked_reports.keys())
RECURSIVE sorted(_)
sorted(keys) ==
    IF keys = {} THEN <<>>
    ELSE LET least == CHOOSE k \in keys : \A other \in keys : k <= other
         IN  <<least>> \o sorted(keys \ {least})

\* fault for C13: the secondaries are taken from the end of the ranking
YearSelectionFromEnd(y, ranked) ==
    [year |-> y,
     best |-> IF Len(ranked) >= 1 THEN <<ranked[1].report>> ELSE <<>>,
     secondary |-> (IF Len(ranked) >= 2 THEN <<ranked[Len(ranked)].report>> ELSE <<>>)
                   \o (IF Len(ranked) >= 3 THEN <<ranked[Len(ranked) - 1].report>> ELSE <<>>)]

\* the year_selection select_best_reports builds for one year
YearSelection(y, ranked) ==
    [year |-> y,
     best |-> IF Len(ranked) >= 1 THEN <<ranked[1].report>> ELSE <<>>,
     secondary |-> (IF Len(ranked) >= 2 THEN <<ranked[2].report>> ELSE <<>>)
                   \o (IF Len(ranked) >= 3 THEN <<ranked[3].report>> ELSE <<>>)]

\* the loop of select_best_reports over years_covered
RECURSIVE SelectYears(_, _)
SelectYears(years, ranked) ==
    IF years = <<>> THEN <<>>
    ELSE (IF ranked[Head(years)] = <<>> THEN <<>>
          ELSE <<YearSelection(Head(years), ranked[Head(years)])>>)
         \o SelectYears(Tail(years), ranked)

\* select_best_reports(ranked_reports)
select_best_reports(ranked) ==
    [years_covered |-> sorted(DOMAIN ranked),
     reports |-> SelectYears(sorted(DOMAIN ranked), ranked)]

\* process_company_reports(ticker, reports)
process_company_reports(company_reports) ==
    select_best_reports(rank_reports_for_company(company_reports))

-----------------------------------------------------------------------------
(* _check_headers_for_documents on its own *)

\* nothing given to _check_headers_for_documents yet
NoHeaderCheck ==
    /\ checked_url = NoUrl
    /\ checked_headers = NoHeaders

-----------------------------------------------------------------------------
(* AnnualReportSearcher.search_all_companies *)

Company(ticker, reports_link) == [ticker |-> ticker, reports_link |-> reports_link]

\* search_all_companies not called yet
NoBatch ==
    /\ companies = <<>>
    /\ searched = 0
    /\ all_selections = <<>>

\* what the try block of search_company_reports meets: find_annual_reports
\* returns documents, or an exception is raised inside the block
SearchOutcome(raised, documents) == [raised |-> raised, documents |-> documents]

\* fault for C22: the exception of a failed search is let out of
\* search_company_reports and ends the batch
search_company_reports_unguarded(outcome, least, now) ==
    IF outcome.raised THEN SearchOutcome(TRUE, <<>>)
    ELSE SearchOutcome(FALSE, filter_documents_by_year(outcome.documents, least, now))

\* search_company_reports(company), given what the crawl did
search_company_reports(outcome, least, now) ==
    IF outcome.raised THEN SearchOutcome(FALSE, <<>>)
    ELSE SearchOutcome(FALSE, filter_documents_by_year(outcome.documents, least, now))

\* all_selections[ticker] = selection
SetItem(dict, key, value) ==
    [k \in DOMAIN dict \cup {key} |-> IF k = key THEN value ELSE dict[k]]

\* the entry one pass of the loop of search_all_companies stores for a company
CompanySelection(company_reports) ==
    IF company_reports # <<>> THEN process_company_reports(company_reports)
    ELSE NoSelection

-----------------------------------------------------------------------------
(* ReportProcessor: the best reports of a company are downloaded and read *)

\* nothing processed yet
NoProcessing ==
    /\ extractable = {}
    /\ processed_documents = <<>>

\* {"title": report.title, "url": report.url} of create_selection_summary
SummaryReport(report) == [title |-> report.title, url |-> report.url]

\* the company_data create_selection_summary writes for a selection and
\* load_reports_metadata reads back
CompanyData(company_selection) ==
    [years_covered |-> company_selection.years_covered,
     reports |-> [ k \in 1..Len(company_selection.reports) |->
                     [year |-> company_selection.reports[k].year,
                      best |-> [ i \in 1..Len(company_selection.reports[k].best) |->
                                 SummaryReport(company_selection.reports[k].best[i]) ],
                      secondary |-> [ i \in 1..Len(company_selection.reports[k].secondary) |->
                                      SummaryReport(company_selection.reports[k].secondary[i]) ]] ]]

\* str(year) as a token
YearToken(year) ==
    CASE year = 2021 -> "2021"
      [] year = 2022 -> "2022"
      [] year = 2023 -> "2023"
      [] OTHER -> "none"

\* the loop of find_best_reports_for_company over the years
RECURSIVE BestReports(_)
BestReports(year_reports) ==
    IF year_reports = <<>> THEN <<>>
    ELSE LET year_data == Head(year_reports)
         IN  (IF year_data.best # <<>>
              THEN << [year |-> year_data.year, url |-> year_data.best[1].url,
                       title |-> year_data.best[1].title] >>
              ELSE <<>>)
             \o BestReports(Tail(year_reports))

\* find_best_reports_for_company(ticker, company_data)
find_best_reports_for_company(company_data) ==
    IF company_data.reports = <<>> THEN <<>> ELSE BestReports(company_data.reports)

\* process_single_document(url, title, year, ticker): the extractor chosen by
\* the extension yields content or not; for an unclear extension both are tried
process_single_document(url, title, year, readable) ==
    IF url \in readable THEN ExtractedDocument(url, title, year) ELSE NoDocument

\* the loop of ReportProcessor.process_company_reports over best_reports
RECURSIVE ProcessBestReports(_, _)
ProcessBestReports(best_reports, readable) ==
    IF best_reports = <<>> THEN <<>>
    ELSE LET report == Head(best_reports)
             title == <<"annual", "report", YearToken(report.year)>>
             document == process_single_document(report.url, title, report.year, readable)
         IN  (IF report.url = NoUrl \/ document = NoDocument THEN <<>> ELSE <<document>>)
             \o ProcessBestReports(Tail(best_reports), readable)

\* ReportProcessor.process_company_reports(ticker, company_data)
process_best_reports_of_company(company_data, readable) ==
    LET best_reports == find_best_reports_for_company(company_data)
    IN  IF best_reports = <<>> THEN <<>> ELSE ProcessBestReports(best_reports, readable)

-----------------------------------------------------------------------------
(* PipelineExecutor *)

\* stats["total_programs"]
total_programs == 4

\* resume_from=None
NoResume == -1

\* sys.exit not reached yet
NoExit == -1

\* execute_pipeline not called yet
NoPipeline ==
    /\ resume_from = NoResume
    /\ prereq_success = FALSE
    /\ program_results = <<>>
    /\ stats = [successful_programs |-> 0, failed_programs |-> 0]
    /\ pipeline_return = "none"
    /\ exit_status = NoExit

\* `not resume_from`: None and 0 are both falsy
NotResuming(resume) == resume = NoResume \/ resume = 0

\* start_index = resume_from or 0
start_index(resume) == IF NotResuming(resume) THEN 0 ELSE resume

\* how a run of one program script can end: exit code 0, another exit code,
\* subprocess.TimeoutExpired, the script not found, any other exception
ProgramEndings == {"exit0", "nonzero", "timeout", "missing", "exception"}

\* result["success"] of run_program
run_program(ending) == ending = "exit0"

\* fault for C29: the loop goes on after a failure
StopsAfterNever(success, resume) == FALSE

\* `if not success and not resume_from: break`
StopsAfter(success, resume) == ~success /\ NotResuming(resume)

\* _generate_final_report unpacks each value of program_results, a dict of
\* three keys, into (program_name, result): ValueError when there is one
generate_final_report_raises(results) == results # <<>>

\* the state of every variable outside this program
OtherIdle == NoHeaderCheck /\ NoBatch /\ NoProcessing /\ NoPipeline

-----------------------------------------------------------------------------
(* The crawler: find_annual_reports *)

Init ==
    /\ url_queue = <<>>
    /\ visited_urls = {}
    /\ found_documents = <<>>
    /\ base_domain = <<>>
    /\ max_depth \in 0..DefaultMaxDepth
    /\ problematic_urls = {}
    /\ pc = "idle"
    /\ result = <<>>
    /\ crawls = 0
    /\ requests = <<>>
    /\ last = "none"
    /\ last_call = NoCall
    /\ seed_soup = NoPage
    /\ years_back = DefaultYearsBack
    /\ current_year = ThisYear
    /\ min_year = calculate_min_year(ThisYear, DefaultYearsBack)
    /\ reports = <<>>
    /\ ranked_reports = <<>>
    /\ selection = NoSelection
    /\ year_text = <<>>
    /\ year_found = NoYear
    /\ OtherIdle

\* fault for C24: the reset of a crawl clears the known-bad URLs too
StartCrawlForgettingKnownBad ==
    /\ pc \in {"idle", "done", "ranked"}
    /\ crawls < MaxCrawls
    /\ \E reports_url \in Seeds :
        /\ url_queue' = <<[url |-> reports_url, depth |-> 0]>>
        /\ base_domain' = extract_base_domain(reports_url)
    /\ visited_urls' = {}
    /\ found_documents' = <<>>
    /\ result' = <<>>        \* the list returned before is this list, cleared in place
    /\ crawls' = crawls + 1
    /\ requests' = <<>>
    /\ last' = "none"
    /\ pc' = "crawling"
    /\ problematic_urls' = {}
    /\ seed_soup' = NoPage
    /\ reports' = <<>>           \* the next company: nothing searched or ranked yet
    /\ ranked_reports' = <<>>
    /\ selection' = NoSelection
    /\ UNCHANGED <<max_depth, last_call, searcher_vars, other_vars, year_vars>>

\* find_annual_reports(reports_url) up to its loop
StartCrawl ==
    /\ pc \in {"idle", "done", "ranked"}
    /\ crawls < MaxCrawls
    /\ \E reports_url \in Seeds :
        /\ url_queue' = <<[url |-> reports_url, depth |-> 0]>>
        /\ base_domain' = extract_base_domain(reports_url)
    /\ visited_urls' = {}
    /\ found_documents' = <<>>
    /\ result' = <<>>        \* the list returned before is this list, cleared in place
    /\ crawls' = crawls + 1
    /\ requests' = <<>>
    /\ last' = "none"
    /\ pc' = "crawling"
    /\ seed_soup' = NoPage
    /\ reports' = <<>>           \* the next company: nothing searched or ranked yet
    /\ ranked_reports' = <<>>
    /\ selection' = NoSelection
    /\ UNCHANGED <<max_depth, problematic_urls, last_call, searcher_vars, other_vars, year_vars>>

\* fault for C9: the visited head of the queue is looked at but not removed
SkipVisitedKeepingHead ==
    /\ pc = "crawling"
    /\ url_queue # <<>>
    /\ Head(url_queue).url \in visited_urls
    /\ last' = "skipped"
    /\ UNCHANGED <<url_queue, visited_urls, found_documents, base_domain, max_depth,
                   problematic_urls, pc, result, crawls, requests, last_call,
                   seed_soup, searcher_vars, other_vars, ranker_vars, year_vars>>

\* a loop iteration whose URL is already visited
SkipVisited ==
    /\ pc = "crawling"
    /\ url_queue # <<>>
    /\ Head(url_queue).url \in visited_urls
    /\ url_queue' = Tail(url_queue)
    /\ last' = "skipped"
    /\ UNCHANGED <<visited_urls, found_documents, base_domain, max_depth,
                   problematic_urls, pc, result, crawls, requests, last_call,
                   seed_soup, searcher_vars, other_vars, ranker_vars, year_vars>>

\* the inputs of one call of _process_url_from_queue; what follows a failed
\* fetch or a failed parse is never looked at
PageInputs ==
    { [o1 |-> o1, parse_raises |-> FALSE, o2 |-> o2, soup |-> soup, headers |-> headers] :
        o1 \in {o \in SteadyOutcomes : o[1] = "ok"}, o2 \in SteadyOutcomes,
        soup \in Pages, headers \in Headers }
    \cup
    { [o1 |-> o1, parse_raises |-> (o1[1] = "ok"), o2 |-> o1, soup |-> <<>>,
       headers |-> NoHeaders] : o1 \in SteadyOutcomes }

\* fault for C8: _process_url_from_queue lets a failure out, and the handler of
\* find_annual_reports ends the crawl with []
ProcessUrlUnguarded ==
    /\ pc = "crawling"
    /\ url_queue # <<>>
    /\ Head(url_queue).url \notin visited_urls
    /\ \E in \in PageInputs :
        LET url == Head(url_queue).url
            p == process_url_from_queue(url, Head(url_queue).depth, in.o1,
                     in.parse_raises, in.o2, in.soup, in.headers, found_documents,
                     Tail(url_queue), visited_urls, problematic_urls, base_domain,
                     max_depth)
        IN  /\ found_documents' = p.found
            /\ url_queue' = p.queue
            /\ problematic_urls' = p.problematic
            /\ requests' = Requested(url, p.requested)
            /\ last' = p.status
            /\ seed_soup' = IF Head(url_queue).depth = 0 /\ p.requested = 2
                            THEN in.soup ELSE seed_soup
            /\ IF p.status = "ok"
               THEN visited_urls' = visited_urls \cup {url} /\ UNCHANGED <<pc, result>>
               ELSE visited_urls' = visited_urls /\ pc' = "done" /\ result' = <<>>
    /\ UNCHANGED <<base_domain, max_depth, crawls, last_call,
                   searcher_vars, other_vars, ranker_vars, year_vars>>

\* fault for C26: a URL whose fetch failed is not marked visited
ProcessUrlMarkingFetched ==
    /\ pc = "crawling"
    /\ url_queue # <<>>
    /\ Head(url_queue).url \notin visited_urls
    /\ \E in \in PageInputs :
        LET url == Head(url_queue).url
            p == process_url_from_queue(url, Head(url_queue).depth, in.o1,
                     in.parse_raises, in.o2, in.soup, in.headers, found_documents,
                     Tail(url_queue), visited_urls, problematic_urls, base_domain,
                     max_depth)
        IN  /\ found_documents' = p.found
            /\ url_queue' = p.queue
            /\ problematic_urls' = p.problematic
            /\ requests' = Requested(url, p.requested)
            /\ last' = p.status
            /\ seed_soup' = IF Head(url_queue).depth = 0 /\ p.requested = 2
                            THEN in.soup ELSE seed_soup
            /\ visited_urls' = IF p.status = "fetch_failed" THEN visited_urls
                             ELSE visited_urls \cup {url}
    /\ UNCHANGED <<base_domain, max_depth, pc, result, crawls, last_call,
                   searcher_vars, other_vars, ranker_vars, year_vars>>

\* a loop iteration that calls _process_url_from_queue and marks the URL visited
ProcessUrl ==
    /\ pc = "crawling"
    /\ url_queue # <<>>
    /\ Head(url_queue).url \notin visited_urls
    /\ \E in \in PageInputs :
        LET url == Head(url_queue).url
            p == process_url_from_queue(url, Head(url_queue).depth, in.o1,
                     in.parse_raises, in.o2, in.soup, in.headers, found_documents,
                     Tail(url_queue), visited_urls, problematic_urls, base_domain,
                     max_depth)
        IN  /\ found_documents' = p.found
            /\ url_queue' = p.queue
            /\ problematic_urls' = p.problematic
            /\ requests' = Requested(url, p.requested)
            /\ last' = p.status
            /\ seed_soup' = IF Head(url_queue).depth = 0 /\ p.requested = 2
                            THEN in.soup ELSE seed_soup
            /\ visited_urls' = visited_urls \cup {url}
    /\ UNCHANGED <<base_domain, max_depth, pc, result, crawls, last_call,
                   searcher_vars, other_vars, ranker_vars, year_vars>>

\* the loop ends: return self.found_documents
ReturnDocuments ==
    /\ pc = "crawling"
    /\ url_queue = <<>>
    /\ pc' = "done"
    /\ result' = found_documents
    /\ UNCHANGED <<url_queue, visited_urls, found_documents, base_domain, max_depth,
                   problematic_urls, crawls, requests, last, last_call,
                   seed_soup, searcher_vars, other_vars, ranker_vars, year_vars>>

Next == StartCrawl \/ SkipVisited \/ ProcessUrl \/ ReturnDocuments

Spec == Init /\ [][Next]_vars

\* the loop of find_annual_reports keeps running until it returns
FairSpec == Spec /\ WF_vars(SkipVisited \/ ProcessUrl \/ ReturnDocuments)

-----------------------------------------------------------------------------
(* The HTTP client on its own: make_request called on one HTTPClient *)

RequestUrls == {SeedUrl, InvestorsUrl, AnnualPdfUrl}

ClientRequest ==
    \E url \in RequestUrls, outcomes \in Outcomes :
        LET r == make_request(url, outcomes, problematic_urls)
        IN  /\ problematic_urls' = r.problematic
            /\ last_call' = [url |-> url, known_bad |-> url \in problematic_urls,
                             outcomes |-> outcomes, response |-> r.response,
                             attempts |-> r.attempts, delays |-> r.delays]
            /\ UNCHANGED <<url_queue, visited_urls, found_documents, base_domain,
                           max_depth, pc, result, crawls, requests, last,
                           seed_soup, searcher_vars, other_vars, ranker_vars, year_vars>>

FetcherNext == ClientRequest

FetcherSpec == Init /\ [][FetcherNext]_vars

-----------------------------------------------------------------------------
(* The ranker on its own: process_company_reports called on a list of reports *)

\* all sequences over S of length n at most
RECURSIVE SeqsUpTo(_, _)
SeqsUpTo(S, n) ==
    IF n = 0 THEN {<<>>}
    ELSE LET shorter == SeqsUpTo(S, n - 1)
         IN  shorter \cup { Append(q, x) : q \in {r \in shorter : Len(r) = n - 1}, x \in S }

AnnualXlsxUrl == [AnnualPdfUrl EXCEPT !.ext = "xlsx"]
QuarterlyDirPdfUrl == Url(ExampleHost, 0, <<"quarterly">>, <<"annual", "2022">>, "pdf")
Form20fPdfUrl == Url(ExampleHost, 0, <<>>, <<"f">>, "pdf")

\* the reports a company can have: the same annual report as PDF and as
\* XLSX, with "quarterly" in its title, under a URL with "quarterly" in it,
\* a transparency report, a report without a year, one of another year
Candidates ==
    { ExtractedDocument(AnnualPdfUrl, <<"annual", "report">>, 2022),
      ExtractedDocument(AnnualXlsxUrl, <<"annual", "report">>, 2022),
      ExtractedDocument(AnnualPdfUrl, <<"quarterly", "annual", "report">>, 2022),
      ExtractedDocument(QuarterlyDirPdfUrl, <<"annual", "report">>, 2022),
      ExtractedDocument(QuarterlyDirPdfUrl, <<"quarterly", "annual", "report">>, 2022),
      ExtractedDocument(AnnualPdfUrl, <<"transparency", "report">>, 2022),
      ExtractedDocument(AnnualPdfUrl, <<"consolidated", "financial", "statements">>, NoYear),
      ExtractedDocument(Form20fPdfUrl, <<"form", "20f">>, 2021) }

RankerInit ==
    /\ url_queue = <<>>
    /\ visited_urls = {}
    /\ found_documents = <<>>
    /\ base_domain = <<>>
    /\ max_depth = DefaultMaxDepth
    /\ problematic_urls = {}
    /\ pc = "idle"
    /\ result = <<>>
    /\ crawls = 0
    /\ requests = <<>>
    /\ last = "none"
    /\ last_call = NoCall
    /\ seed_soup = NoPage
    /\ years_back = DefaultYearsBack
    /\ current_year = ThisYear
    /\ min_year = calculate_min_year(ThisYear, DefaultYearsBack)
    /\ reports \in SeqsUpTo(Candidates, MaxReports)
    /\ ranked_reports = <<>>
    /\ selection = NoSelection
    /\ year_text = <<>>
    /\ year_found = NoYear
    /\ OtherIdle

\* process_company_reports(ticker, reports)
ProcessCompanyReports ==
    /\ pc = "idle"
    /\ ranked_reports' = rank_reports_for_company(reports)
    /\ selection' = select_best_reports(ranked_reports')
    /\ pc' = "ranked"
    /\ UNCHANGED <<url_queue, visited_urls, found_documents, base_domain, max_depth,
                   problematic_urls, result, crawls, requests, last, last_call,
                   seed_soup, searcher_vars, other_vars, reports, year_vars>>

RankerNext == ProcessCompanyReports

RankerSpec == RankerInit /\ [][RankerNext]_vars

-----------------------------------------------------------------------------
(* Year extraction on its own: _extract_year_from_text character by character *)

\* a text is a sequence of characters: the digits are the numbers 0..9 and
\* NonDigit stands for every other character
NonDigit == 10

IsDigit(c) == c \in 0..9

\* the matches of re.findall(r'(20\d{2})', text) from position i on, as
\* integers: found left to right, the search going on behind each match
RECURSIVE findall_years(_, _)
findall_years(chars, i) ==
    IF i + 3 > Len(chars) THEN <<>>
    ELSE IF chars[i] = 2 /\ chars[i + 1] = 0
            /\ IsDigit(chars[i + 2]) /\ IsDigit(chars[i + 3])
         THEN <<2000 + 10 * chars[i + 2] + chars[i + 3]>> \o findall_years(chars, i + 4)
         ELSE findall_years(chars, i + 1)

\* fault for C18: the first year found is returned
extract_year_from_characters_first(chars) ==
    LET year_matches == findall_years(chars, 1)
        valid_years == SelectSeq(year_matches, LAMBDA y : 2000 <= y /\ y <= 2099)
    IN  IF year_matches = <<>> THEN NoYear
        ELSE IF valid_years = <<>> THEN NoYear
        ELSE valid_years[1]

\* _extract_year_from_text(text) on the characters of text
extract_year_from_characters(chars) ==
    LET year_matches == findall_years(chars, 1)
        valid_years == SelectSeq(year_matches, LAMBDA y : 2000 <= y /\ y <= 2099)
    IN  IF year_matches = <<>> THEN NoYear
        ELSE IF valid_years = <<>> THEN NoYear
        ELSE IF Len(valid_years) > 1 THEN valid_years[Len(valid_years)]
        ELSE valid_years[1]

\* n characters that are not digits
Letters(n) == [ i \in 1..n |-> NonDigit ]

\* "20190326-Annual_Report_2018.pdf", "Report.pdf", "AR_2021.xlsx"
DatedReportName == <<2, 0, 1, 9, 0, 3, 2, 6>> \o Letters(15) \o <<2, 0, 1, 8>> \o Letters(4)
PlainReportName == Letters(10)
ShortReportName == Letters(3) \o <<2, 0, 2, 1>> \o Letters(5)

\* the characters the bounded texts are made of
YearChars == {0, 1, 2, NonDigit}

Texts ==
    SeqsUpTo(YearChars, MaxTextLen)
    \cup {DatedReportName, PlainReportName, ShortReportName}

YearInit ==
    /\ url_queue = <<>>
    /\ visited_urls = {}
    /\ found_documents = <<>>
    /\ base_domain = <<>>
    /\ max_depth = DefaultMaxDepth
    /\ problematic_urls = {}
    /\ pc = "idle"
    /\ result = <<>>
    /\ crawls = 0
    /\ requests = <<>>
    /\ last = "none"
    /\ last_call = NoCall
    /\ seed_soup = NoPage
    /\ years_back = DefaultYearsBack
    /\ current_year = ThisYear
    /\ min_year = calculate_min_year(ThisYear, DefaultYearsBack)
    /\ reports = <<>>
    /\ ranked_reports = <<>>
    /\ selection = NoSelection
    /\ year_text \in Texts
    /\ year_found = NoYear
    /\ OtherIdle

\* _extract_year_from_text(text)
ExtractYear ==
    /\ pc = "idle"
    /\ year_found' = extract_year_from_characters(year_text)
    /\ pc' = "extracted"
    /\ UNCHANGED <<url_queue, visited_urls, found_documents, base_domain, max_depth,
                   problematic_urls, result, crawls, requests, last, last_call,
                   seed_soup, searcher_vars, other_vars, ranker_vars, year_text>>

YearNext == ExtractYear

YearSpec == YearInit /\ [][YearNext]_vars

-----------------------------------------------------------------------------
(* The searcher: search_all_companies crawls, filters and ranks per company *)

\* AnnualReportSearcher.__init__: a crawler with the default depth, the year window
SearcherInit ==
    /\ url_queue = <<>>
    /\ visited_urls = {}
    /\ found_documents = <<>>
    /\ base_domain = <<>>
    /\ max_depth = DefaultMaxDepth
    /\ problematic_urls = {}
    /\ pc = "idle"
    /\ result = <<>>
    /\ crawls = 0
    /\ requests = <<>>
    /\ last = "none"
    /\ last_call = NoCall
    /\ seed_soup = NoPage
    /\ \E config \in SearcherConfigs :
          /\ years_back = config.years_back
          /\ current_year = config.current_year
          /\ min_year = calculate_min_year(config.current_year, config.years_back)
    /\ reports = <<>>
    /\ ranked_reports = <<>>
    /\ selection = NoSelection
    /\ year_text = <<>>
    /\ year_found = NoYear
    /\ OtherIdle

\* search_company_reports after the crawl returned (the filter), then the
\* ranking of search_all_companies
RankCompany ==
    /\ pc = "done"
    /\ reports' = filter_documents_by_year(result, min_year, current_year)
    /\ ranked_reports' = IF reports' # <<>> THEN rank_reports_for_company(reports')
                         ELSE <<>>
    /\ selection' = IF reports' # <<>> THEN select_best_reports(ranked_reports')
                    ELSE NoSelection
    /\ pc' = "ranked"
    /\ UNCHANGED <<url_queue, visited_urls, found_documents, base_domain, max_depth,
                   problematic_urls, result, crawls, requests, last, last_call,
                   seed_soup, searcher_vars, other_vars, year_vars>>

SearcherNext == StartCrawl \/ SkipVisited \/ ProcessUrl \/ ReturnDocuments \/ RankCompany

SearcherSpec == SearcherInit /\ [][SearcherNext]_vars

-----------------------------------------------------------------------------
(* The parts of the initial state, for the programs that run on their own *)

\* a crawler and its HTTP client after construction
CrawlerIdle ==
    /\ url_queue = <<>>
    /\ visited_urls = {}
    /\ found_documents = <<>>
    /\ base_domain = <<>>
    /\ max_depth = DefaultMaxDepth
    /\ problematic_urls = {}
    /\ result = <<>>
    /\ crawls = 0
    /\ requests = <<>>
    /\ last = "none"
    /\ last_call = NoCall
    /\ seed_soup = NoPage

\* a searcher with the default year window
SearcherIdle ==
    /\ years_back = DefaultYearsBack
    /\ current_year = ThisYear
    /\ min_year = calculate_min_year(ThisYear, DefaultYearsBack)

\* nothing ranked yet
RankerIdle ==
    /\ reports = <<>>
    /\ ranked_reports = <<>>
    /\ selection = NoSelection

\* nothing given to _extract_year_from_text yet
YearIdle ==
    /\ year_text = <<>>
    /\ year_found = NoYear

-----------------------------------------------------------------------------
(* Header inspection on its own: _check_headers_for_documents called on a URL *)

\* document endpoints without an extension, a directory URL, a page, two PDFs
DownloadUrl == Url(ExampleHost, 0, <<"annual">>, <<"download">>, "")
QuarterlyDownloadUrl == Url(ExampleHost, 0, <<"quarterly">>, <<"download">>, "")
ReportsDirUrl == Url(ExampleHost, 0, <<"annual", "report">>, <<>>, "")

CheckedUrls ==
    { DownloadUrl, QuarterlyDownloadUrl, ReportsDirUrl, SeedUrl, AnnualPdfUrl,
      QuarterAnnualPdfUrl }

CheckedHeaders ==
    { ResponseHeaders(d, e, t) :
        d \in {NoHeader, AnnualAttachment, QuarterAttachment},
        e \in {NoHeader, AnnualAttachment, QuarterAttachment},
        \* text/html, application/pdf, application/vnd.ms-excel
        t \in { <<"text", "html">>, <<"application", "pdf">>,
                <<"application", "vnd", "ms-excel">> } }

HeaderInit ==
    /\ pc = "idle"
    /\ CrawlerIdle /\ SearcherIdle /\ RankerIdle /\ YearIdle
    /\ checked_url \in CheckedUrls
    /\ checked_headers \in CheckedHeaders
    /\ NoBatch /\ NoProcessing /\ NoPipeline

\* _check_headers_for_documents(url): its request, then the headers
CheckHeaders ==
    /\ pc = "idle"
    /\ \E outcomes \in SteadyOutcomes :
        LET r == make_request(checked_url, outcomes, problematic_urls)
        IN  /\ problematic_urls' = r.problematic
            /\ requests' = Requested(checked_url, 1)
            /\ last' = IF r.response THEN "ok" ELSE "fetch_failed"
            /\ found_documents' =
                  IF r.response
                  THEN check_headers_for_documents(checked_url, checked_headers,
                                                   found_documents)
                  ELSE found_documents
    /\ pc' = "checked"
    /\ UNCHANGED <<url_queue, visited_urls, base_domain, max_depth, result, crawls,
                   last_call, seed_soup, searcher_vars, ranker_vars, year_vars,
                   other_vars>>

HeaderSpec == HeaderInit /\ [][CheckHeaders]_vars

-----------------------------------------------------------------------------
(* The batch: search_all_companies over a list of companies *)

\* the companies of the input file; two entries may carry the same ticker
CompanyList == { Company("aaa", SeedUrl), Company("bbb", InvestorsUrl) }

\* what a crawl can return for a company: reports of two years inside the
\* window, one of the current year, one without a year
BatchDocuments ==
    { ExtractedDocument(AnnualPdfUrl, <<"annual", "report">>, 2022),
      ExtractedDocument(Form20fPdfUrl, <<"form", "20f">>, 2021),
      ExtractedDocument(AnnualXlsxUrl, <<"annual", "report">>, 2023),
      ExtractedDocument(AnnualPdfUrl, <<"consolidated", "financial", "statements">>, NoYear) }

\* the crawl of a company returns up to two documents, or the search raises
SearchOutcomes ==
    { SearchOutcome(TRUE, <<>>) }
    \cup { SearchOutcome(FALSE, documents) : documents \in SeqsUpTo(BatchDocuments, 2) }

BatchInit ==
    /\ pc = "idle"
    /\ CrawlerIdle /\ SearcherIdle /\ RankerIdle /\ YearIdle
    /\ NoHeaderCheck
    /\ companies \in SeqsUpTo(CompanyList, MaxCompanies)
    /\ searched = 0
    /\ all_selections = <<>>
    /\ NoProcessing /\ NoPipeline

\* one pass of the loop of search_all_companies: the company is searched,
\* its reports are ranked, its entry is stored
SearchCompany ==
    /\ pc \in {"idle", "searching"}
    /\ searched < Len(companies)
    /\ \E outcome \in SearchOutcomes :
        LET company == companies[searched + 1]
            r == search_company_reports(outcome, min_year, current_year)
        IN  /\ last' = IF outcome.raised THEN "exception" ELSE "ok"
            /\ result' = outcome.documents
            /\ IF r.raised
               THEN /\ pc' = "aborted"
                    /\ UNCHANGED <<ranker_vars, searched, all_selections>>
               ELSE /\ pc' = "searching"
                    /\ reports' = r.documents
                    /\ ranked_reports' = IF reports' # <<>>
                                         THEN rank_reports_for_company(reports')
                                         ELSE <<>>
                    /\ selection' = CompanySelection(reports')
                    /\ all_selections' = SetItem(all_selections, company.ticker, selection')
                    /\ searched' = searched + 1
    /\ UNCHANGED <<url_queue, visited_urls, found_documents, base_domain, max_depth,
                   problematic_urls, crawls, requests, last_call, seed_soup,
                   searcher_vars, year_vars, header_vars, companies,
                   processor_vars, pipeline_vars>>

\* the loop is over: return all_selections
ReturnSelections ==
    /\ pc \in {"idle", "searching"}
    /\ searched = Len(companies)
    /\ pc' = "returned"
    /\ UNCHANGED <<crawler_vars, searcher_vars, ranker_vars, year_vars, other_vars>>

BatchSpec == BatchInit /\ [][SearchCompany \/ ReturnSelections]_vars

-----------------------------------------------------------------------------
(* The report processor: a company's reports are ranked, then downloaded *)

\* the reports of a company: an annual report of 2022 as XLSX and as PDF and
\* a Form 20-F of 2021
Downloadable ==
    { ExtractedDocument(AnnualXlsxUrl, <<"annual", "report">>, 2022),
      ExtractedDocument(AnnualPdfUrl, <<"annual", "report">>, 2022),
      ExtractedDocument(Form20fPdfUrl, <<"form", "20f">>, 2021) }

ProcessorInit ==
    /\ pc = "idle"
    /\ CrawlerIdle /\ SearcherIdle /\ YearIdle
    /\ reports \in SeqsUpTo(Downloadable, MaxReports)
    /\ ranked_reports = <<>>
    /\ selection = NoSelection
    /\ NoHeaderCheck /\ NoBatch
    /\ extractable \in SUBSET { report.url : report \in Downloadable }
    /\ processed_documents = <<>>
    /\ NoPipeline

\* ReportProcessor.process_company_reports on the company_data written for
\* the selection
ProcessSelected ==
    /\ pc = "ranked"
    /\ processed_documents' =
          process_best_reports_of_company(CompanyData(selection), extractable)
    /\ pc' = "processed"
    /\ UNCHANGED <<crawler_vars, searcher_vars, ranker_vars, year_vars, header_vars,
                   batch_vars, extractable, pipeline_vars>>

ProcessorSpec == ProcessorInit /\ [][ProcessCompanyReports \/ ProcessSelected]_vars

-----------------------------------------------------------------------------
(* The pipeline: main calls execute_pipeline, which runs the four programs *)

\* --resume-from: absent or one of choices=[0, 1, 2, 3]
ResumeValues == {NoResume} \cup (0..(total_programs - 1))

PipelineInit ==
    /\ pc = "idle"
    /\ CrawlerIdle /\ SearcherIdle /\ RankerIdle /\ YearIdle
    /\ OtherIdle

\* execute_pipeline(resume_from) up to its loop: the prerequisites check
ExecutePipeline ==
    /\ pc = "idle"
    /\ \E resume \in ResumeValues, met \in BOOLEAN :
        /\ resume_from' = resume
        /\ prereq_success' = met
        /\ pc' = IF met THEN "running" ELSE "returned"
        /\ pipeline_return' = IF met THEN "none" ELSE "false"
    /\ UNCHANGED <<crawler_vars, searcher_vars, ranker_vars, year_vars, header_vars,
                   batch_vars, processor_vars, program_results, stats, exit_status>>

\* one pass of the loop over programs[start_index:]
RunProgram ==
    /\ pc = "running"
    /\ \E ending \in ProgramEndings :
        LET i == start_index(resume_from) + Len(program_results)
            success == run_program(ending)
        IN  /\ i < total_programs
            /\ program_results' = Append(program_results,
                   [program |-> i, success |-> success, result |-> ending])
            /\ stats' = IF success
                        THEN [stats EXCEPT !.successful_programs = @ + 1]
                        ELSE [stats EXCEPT !.failed_programs = @ + 1]
            /\ pc' = IF StopsAfter(success, resume_from) \/ i + 1 = total_programs
                     THEN "reporting" ELSE "running"
    /\ UNCHANGED <<crawler_vars, searcher_vars, ranker_vars, year_vars, header_vars,
                   batch_vars, processor_vars, resume_from, prereq_success,
                   pipeline_return, exit_status>>

\* after the loop: _generate_final_report, then the return value
FinishPipeline ==
    /\ pc = "reporting"
    /\ pipeline_return' =
          IF generate_final_report_raises(program_results) THEN "raised"
          ELSE IF stats.successful_programs = total_programs THEN "true"
          ELSE "false"
    /\ pc' = "returned"
    /\ UNCHANGED <<crawler_vars, searcher_vars, ranker_vars, year_vars, header_vars,
                   batch_vars, processor_vars, resume_from, prereq_success,
                   program_results, stats, exit_status>>

\* main: return 0 if success, 1 if not and on any exception
MainExit ==
    /\ pc = "returned"
    /\ exit_status' = IF pipeline_return = "true" THEN 0 ELSE 1
    /\ pc' = "exited"
    /\ UNCHANGED <<crawler_vars, searcher_vars, ranker_vars, year_vars, header_vars,
                   batch_vars, processor_vars, resume_from, prereq_success,
                   program_results, stats, pipeline_return>>

PipelineSpec == PipelineInit /\ [][ExecutePipeline \/ RunProgram \/ FinishPipeline \/ MainExit]_vars

-----------------------------------------------------------------------------
(* Claims *)

IsPrefix(s, t) == Len(s) <= Len(t) /\ SubSeq(t, 1, Len(s)) = s

\* C1: within one crawl make_request is invoked at most once for any URL.
C1_NoUrlFetchedTwice ==
    \A u \in DOMAIN requests : requests[u] <= 1

\* C2: found_documents holds at most one entry per URL, on every discovery path.
C2_OneEntryPerUrl ==
    \A i, j \in 1..Len(found_documents) :
        found_documents[i].url = found_documents[j].url => i = j

OkResponse == CallResult(TRUE, 1, <<>>, problematic_urls)

\* C4: every frontier entry has a depth in 0..max_depth; a page records its
\* direct documents whatever its depth; with max_depth = 0 only the seed is
\* requested and nothing is ever queued behind it.
C4_DepthBound ==
    /\ \A i \in 1..Len(url_queue) : url_queue[i].depth \in 0..max_depth
    /\ max_depth = 0 => Len(url_queue) <= 1 /\ Cardinality(DOMAIN requests) <= 1
    /\ \A soup \in Pages, d \in 0..DefaultMaxDepth :
          ProcessPage(SeedUrl, d, soup, NoHeaders, OkResponse, found_documents,
                      url_queue, visited_urls, base_domain, max_depth).found
          = find_direct_documents(SeedUrl, soup, found_documents).found

\* C4 witness: a finished crawl with max_depth = 0 that requested the seed only
\* and recorded the annual PDF its page links to.
C4_Witness ==
    /\ max_depth = 0
    /\ pc = "done"
    /\ DOMAIN requests = {SeedUrl}
    /\ \E i \in 1..Len(result) :
          result[i] = ExtractedDocument(AnnualPdfUrl, <<"annual", "report", "2022">>, 2022)

Called == last_call.url # NoUrl

\* C5: a call for a URL that is already known-bad fails at once with no
\* network attempt, a failed call leaves its URL known-bad, and no call
\* removes a URL from the known-bad set.
C5_BreakerNeverResets ==
    [][ /\ last_call'.url \in problematic_urls =>
              ~last_call'.response /\ last_call'.attempts = 0
                 /\ last_call'.delays = <<>>
        /\ (last_call'.url # NoUrl /\ ~last_call'.response) =>
              last_call'.url \in problematic_urls'
        /\ problematic_urls \subseteq problematic_urls' ]_vars

\* C5 witness: a call for a known-bad URL that the network would have answered.
C5_Witness ==
    Called /\ last_call.known_bad /\ last_call.outcomes[1] = "ok"

AllTransient(c) == \A i \in 1..max_retries : c.outcomes[i] = "transient"

\* C6 as stated: a call whose attempts all fail transiently retries 3 times,
\* waiting 1, 2 and 4 time units, before it gives up.
C6_ThreeRetries ==
    (Called /\ ~last_call.known_bad /\ AllTransient(last_call)) =>
        last_call.attempts = 4 /\ last_call.delays = <<1, 2, 4>>

\* C6 amended: a call makes at most 3 attempts (2 retries) and waits 1 then 2
\* time units between them; it gives up on a transient failure only at the
\* third attempt, and then the URL is known-bad; a success on any attempt
\* returns the response and does not record the URL.
C6_ThreeAttempts ==
    (Called /\ ~last_call.known_bad) =>
        LET c == last_call
            n == c.attempts
        IN  /\ n \in 1..3
            /\ Len(c.delays) = n - 1
            /\ \A i \in 1..Len(c.delays) : c.delays[i] = 2 ^ (i - 1)
            /\ \A i \in 1..(n - 1) : c.outcomes[i] = "transient"
            /\ AllTransient(c) =>
                  ~c.response /\ n = 3 /\ c.delays = <<1, 2>>
                     /\ c.url \in problematic_urls
            /\ (~c.response /\ c.outcomes[n] = "transient") => n = 3
            /\ c.response <=> c.outcomes[n] = "ok"
            /\ c.response <=> c.url \notin problematic_urls

\* C6 witness: a call gave up after three transient failures.
C6_Witness ==
    Called /\ ~last_call.known_bad /\ AllTransient(last_call)
        /\ last_call.attempts = 3

ProcessedStep == pc = "crawling" /\ requests' # requests

\* C8: an iteration whose fetch failed or whose processing raised still marks
\* its URL visited, keeps the candidates found before and the entries queued
\* behind it, and leaves the crawl running; a failed fetch changes neither;
\* the crawl returns what it has accumulated.
C8_FailureSkipsOneUrl ==
    [][ /\ (ProcessedStep /\ last' \in {"fetch_failed", "exception"}) =>
              /\ visited_urls' = visited_urls \cup {Head(url_queue).url}
              /\ IsPrefix(found_documents, found_documents')
              /\ IsPrefix(Tail(url_queue), url_queue')
              /\ pc' = "crawling"
        /\ (ProcessedStep /\ last' = "fetch_failed") =>
              found_documents' = found_documents /\ url_queue' = Tail(url_queue)
        /\ (pc = "crawling" /\ pc' = "done") =>
              url_queue = <<>> /\ result' = found_documents ]_vars

\* C8 witness: a page raised while URLs were queued behind it and candidates
\* had been found, and the crawl is still running.
C8_Witness ==
    /\ pc = "crawling"
    /\ last = "exception"
    /\ url_queue # <<>>
    /\ found_documents # <<>>
    /\ Cardinality(visited_urls) >= 2

\* C9: a crawl that was started ends with an empty frontier and returns the
\* accumulated candidate list.
C9_CrawlTerminates ==
    (pc = "crawling") ~> (pc = "done" /\ url_queue = <<>> /\ result = found_documents)

\* C9 witness: a crawl ended whose last iteration met an already visited URL
\* (a self-link or a cycle) and in which a fetch had failed.
C9_Witness ==
    pc = "done" /\ last = "skipped" /\ problematic_urls # {}
        /\ Cardinality(visited_urls) >= 2

\* C10: no recorded candidate has a quarterly marker in its title or its URL.
C10_NoQuarterlyCandidate ==
    \A i \in 1..Len(found_documents) :
        /\ ~AnyKeywordIn(get_quarterly_keywords, found_documents[i].title)
        /\ ~AnyKeywordIn(get_quarterly_keywords, UrlText(found_documents[i].url))

\* C11: a link that is social or whose resolved URL is on the ignore-path list
\* is never queued and never recorded as a candidate, also when it ends in
\* .pdf or .xlsx and carries an annual keyword.
C11_NoSkippedOrSocialCandidate ==
    /\ \A i \in 1..Len(url_queue) :
          ~should_skip_url(url_queue[i].url)
    /\ \A i \in 1..Len(found_documents) :
          /\ ~should_skip_url(found_documents[i].url)
          /\ ~is_social_media_link(Href("abs", found_documents[i].url),
                                   found_documents[i].title)

Ranked == pc = "ranked"

\* the reports of year y, in the order they were given
OfYear(y) == SelectSeq(reports, LAMBDA r : r.year = y)

\* the reports of a ranking, without their scores
ReportsOf(ranked) == [ i \in 1..Len(ranked) |-> ranked[i].report ]

\* the selection made for year y
SelectionOf(y) ==
    selection.reports[CHOOSE i \in 1..Len(selection.reports) : selection.reports[i].year = y]

\* C12: reports of one year with the same score are ranked in the order they
\* were given, so the first of the top scorers is the best one.
C12_StableRanking ==
    Ranked =>
        \A y \in DOMAIN ranked_reports :
            LET ranking == ranked_reports[y]
                scores == { ranking[i].score : i \in 1..Len(ranking) }
                top == CHOOSE m \in scores : \A other \in scores : m >= other
            IN  /\ \A sc \in scores :
                      ReportsOf(SelectSeq(ranking, LAMBDA e : e.score = sc))
                      = SelectSeq(OfYear(y), LAMBDA r : calculate_report_score(r) = sc)
                /\ SelectionOf(y).best
                      = <<Head(SelectSeq(OfYear(y),
                                         LAMBDA r : calculate_report_score(r) = top))>>

\* C12 witness: two different reports of one year with the same score, and no
\* report of that year scores higher; the first given is best, the second secondary.
C12_Witness ==
    /\ Ranked
    /\ \E i, j \in 1..Len(reports) :
          /\ i < j
          /\ reports[i] # reports[j]
          /\ reports[i].year = 2022 /\ reports[j].year = 2022
          /\ calculate_report_score(reports[i]) = calculate_report_score(reports[j])
          /\ \A k \in 1..Len(reports) :
                /\ calculate_report_score(reports[k]) <= calculate_report_score(reports[i])
                /\ (k < i => calculate_report_score(reports[k]) < calculate_report_score(reports[i]))
                /\ (k < j /\ k # i =>
                       calculate_report_score(reports[k]) < calculate_report_score(reports[i]))
          /\ SelectionOf(2022).best = <<reports[i]>>
          /\ SelectionOf(2022).secondary[1] = reports[j]

\* how often x occurs in seq
Occurrences(seq, x) == Cardinality({ i \in 1..Len(seq) : seq[i] = x })

\* C13: for every year best holds the highest-scoring report of the year and
\* secondary the next min(2, n-1) of its n reports in descending score order;
\* no report of the year that was left out scores higher than a selected one.
C13_BestThenSecondaries ==
    Ranked =>
        \A k \in 1..Len(selection.reports) :
            LET sel == selection.reports[k]
                all == OfYear(sel.year)
                chosen == sel.best \o sel.secondary
                lowest == calculate_report_score(chosen[Len(chosen)])
            IN  /\ Len(sel.best) = 1
                /\ \A i \in 1..Len(all) :
                      calculate_report_score(sel.best[1]) >= calculate_report_score(all[i])
                /\ Len(sel.secondary) = IF Len(all) - 1 < 2 THEN Len(all) - 1 ELSE 2
                /\ \A i \in 1..(Len(chosen) - 1) :
                      calculate_report_score(chosen[i]) >= calculate_report_score(chosen[i + 1])
                /\ \A i \in 1..Len(chosen) :
                      Occurrences(chosen, chosen[i]) <= Occurrences(all, chosen[i])
                /\ \A i \in 1..Len(all) :
                      calculate_report_score(all[i]) > lowest =>
                          Occurrences(chosen, all[i]) = Occurrences(all, all[i])

\* C13 witness: four reports of 2022 given in ascending score order (0, 135,
\* 200, 300); the XLSX is best, the PDF and the transparency report are the
\* secondaries, the report with "quarterly" in its title is left out.
C13_Witness ==
    /\ Ranked
    /\ reports = << ExtractedDocument(AnnualPdfUrl, <<"quarterly", "annual", "report">>, 2022),
                    ExtractedDocument(AnnualPdfUrl, <<"transparency", "report">>, 2022),
                    ExtractedDocument(AnnualPdfUrl, <<"annual", "report">>, 2022),
                    ExtractedDocument(AnnualXlsxUrl, <<"annual", "report">>, 2022) >>
    /\ SelectionOf(2022).best = <<reports[4]>>
    /\ SelectionOf(2022).secondary = <<reports[3], reports[2]>>

C15_YearsCovered ==
    Ranked =>
        LET years == { reports[i].year : i \in 1..Len(reports) } \ {NoYear}
            covered == selection.years_covered
        IN  /\ { covered[k] : k \in 1..Len(covered) } = years
            /\ \A k \in 1..(Len(covered) - 1) : covered[k] < covered[k + 1]
            /\ Len(selection.reports) = Len(covered)
            /\ \A k \in 1..Len(selection.reports) :
                  LET sel == selection.reports[k]
                      chosen == sel.best \o sel.secondary
                  IN  /\ sel.year = covered[k]
                      /\ Len(sel.best) = 1
                      /\ \A i \in 1..Len(chosen) :
                            chosen[i].year = sel.year /\ chosen[i].year # NoYear

\* C15 witness: a report of 2022, then one without a year, then one of 2021
\* were given; the output covers 2021 and 2022 in that order.
C15_Witness ==
    /\ Ranked
    /\ Len(reports) = 3
    /\ reports[1].year = 2022 /\ reports[2].year = NoYear /\ reports[3].year = 2021
    /\ selection.years_covered = <<2021, 2022>>
    /\ selection.reports[1].best = <<reports[3]>>
    /\ selection.reports[2].best = <<reports[1]>>

\* C16: of two reports that differ only in that one URL ends in .xlsx and the
\* other in .pdf, the .xlsx one scores higher (by the 100 points between the
\* file type scores), whatever the title and the rest of the URL.
C16_XlsxOutscoresPdf ==
    Ranked =>
        /\ \A y \in DOMAIN ranked_reports :
              \A i, j \in 1..Len(ranked_reports[y]) :
                  LET xlsx == ranked_reports[y][i]
                      pdf == ranked_reports[y][j]
                  IN  (pdf.report.url.ext = "pdf"
                       /\ xlsx.report = [pdf.report EXCEPT !.url.ext = "xlsx"]) =>
                          xlsx.score > pdf.score /\ xlsx.score - pdf.score = 100
        /\ \A i \in 1..Len(reports) :
              calculate_report_score([reports[i] EXCEPT !.url.ext = "xlsx"])
              > calculate_report_score([reports[i] EXCEPT !.url.ext = "pdf"])

\* C16 witness: the PDF of a report was given before its XLSX; the XLSX is
\* best and the PDF secondary.
C16_Witness ==
    /\ Ranked
    /\ reports = << ExtractedDocument(AnnualPdfUrl, <<"annual", "report">>, 2022),
                    ExtractedDocument(AnnualXlsxUrl, <<"annual", "report">>, 2022) >>
    /\ SelectionOf(2022).best = <<reports[2]>>
    /\ SelectionOf(2022).secondary = <<reports[1]>>

\* the report r with "quarterly" put in front of its title
WithQuarterly(r) == [r EXCEPT !.title = <<"quarterly">> \o @]

\* "quarterly" occurs in the title or the URL of r
HasQuarterly(r) ==
    AnyKeywordIn({"quarterly"}, r.title) \/ AnyKeywordIn({"quarterly"}, UrlText(r.url))

Extracted == pc = "extracted"

\* "20" and two digits stand at position i of chars
PatternAt(chars, i) ==
    /\ i + 3 <= Len(chars)
    /\ chars[i] = 2 /\ chars[i + 1] = 0
    /\ IsDigit(chars[i + 2]) /\ IsDigit(chars[i + 3])

YearAt(chars, i) == 2000 + 10 * chars[i + 2] + chars[i + 3]

\* a token of four digits starts at position i: no digit before or behind it
TokenAt(chars, i) ==
    /\ i + 3 <= Len(chars)
    /\ \A k \in i..(i + 3) : IsDigit(chars[k])
    /\ i = 1 \/ ~IsDigit(chars[i - 1])
    /\ i + 3 = Len(chars) \/ ~IsDigit(chars[i + 4])

Greatest(S) == CHOOSE m \in S : \A other \in S : m >= other

\* the last of the years that start at the positions in starts, none without one
LastYearAmong(chars, starts) ==
    IF starts = {} THEN NoYear ELSE YearAt(chars, Greatest(starts))

\* C18 as stated: the result is the last four-digit year of 2000..2099 that
\* the text holds, and none when it holds none, a year being either a token
\* of four digits of its own or any four characters that read as a year.
C18_LastYearToken ==
    Extracted =>
        LET occurrences == { i \in 1..Len(year_text) : PatternAt(year_text, i) }
            tokens == { i \in occurrences : TokenAt(year_text, i) }
        IN  \/ year_found = LastYearAmong(year_text, tokens)
            \/ year_found = LastYearAmong(year_text, occurrences)

\* C18 amended: the result is the last of the matches of "20" and two digits
\* found left to right, a match starting only behind the match before it and
\* possibly inside a longer run of digits; it is none exactly when "20" and
\* two digits occur nowhere, and otherwise in 2000..2099; the three example
\* names give 2018, none and 2021.
C18_LastMatch ==
    Extracted =>
        LET occurrences == { i \in 1..Len(year_text) : PatternAt(year_text, i) }
        IN  /\ year_found = NoYear \/ year_found \in 2000..2099
            /\ year_found = NoYear <=> occurrences = {}
            /\ occurrences # {} =>
                  \E found \in SUBSET occurrences :
                      /\ \A i \in occurrences :
                            i \in found <=> \A j \in found : ~(j < i /\ i < j + 4)
                      /\ year_found = YearAt(year_text, Greatest(found))
            /\ year_text = DatedReportName => year_found = 2018
            /\ year_text = PlainReportName => year_found = NoYear
            /\ year_text = ShortReportName => year_found = 2021

\* C18 witness: the year was taken from "20190326-Annual_Report_2018.pdf".
C18_Witness ==
    Extracted /\ year_text = DatedReportName /\ year_found = 2018

InWindow(doc) == doc.year # NoYear /\ min_year <= doc.year /\ doc.year < current_year

\* C19: the selection of a company holds only documents whose year y has
\* min_year <= y < current_year, with min_year = current_year - years_back - 1,
\* and covers every year of the window the crawl found a document of; the
\* filter works on what the crawl returned and changes nothing of the crawl,
\* and no step of the crawl changes the window.
C19_YearWindow ==
    [][ /\ UNCHANGED searcher_vars
        /\ min_year = current_year - years_back - 1
        /\ (pc = "done" /\ pc' = "ranked") =>
              /\ UNCHANGED <<url_queue, visited_urls, found_documents, result,
                             requests, problematic_urls>>
              /\ \A k \in 1..Len(selection'.reports) :
                    \A doc \in { selection'.reports[k].best[i] :
                                   i \in 1..Len(selection'.reports[k].best) }
                               \cup { selection'.reports[k].secondary[i] :
                                        i \in 1..Len(selection'.reports[k].secondary) } :
                        InWindow(doc) /\ \E i \in 1..Len(result) : result[i] = doc
              /\ { selection'.years_covered[k] : k \in 1..Len(selection'.years_covered) }
                 = { result[i].year : i \in { n \in 1..Len(result) : InWindow(result[n]) } }
      ]_vars

\* C19 witness: run in 2022 with years_back = 10; the crawl fetched the PDF of
\* the 2022 report and returned it with a report of 2021; only 2021 is selected.
C19_Witness ==
    /\ Ranked
    /\ current_year = 2022 /\ min_year = 2011
    /\ \E i, j \in 1..Len(result) :
          /\ result[i].year = 2022 /\ result[i].url \in DOMAIN requests
          /\ result[j].year = 2021
    /\ selection.years_covered = <<2021>>

\* the candidate the anchor of the annual report of 2022 gives
AnnualReport2022 == ExtractedDocument(AnnualPdfUrl, <<"annual", "report", "2022">>, 2022)

\* C20: when the seed page links to an annual PDF of 2022 and a quarterly PDF
\* and to no other document, and nothing but the annual PDF gave a candidate,
\* the crawl returns the annual PDF once and the selection is 2022 with that
\* PDF as best and no secondary (2022 being inside the year window).
C20_AnnualAndQuarterlyScenario ==
    ( /\ Ranked
      /\ seed_soup = AnnualAndQuarterlyPage
      /\ min_year <= 2022 /\ 2022 < current_year
      /\ \A i \in 1..Len(result) : result[i].url = AnnualPdfUrl ) =>
        /\ result = <<AnnualReport2022>>
        /\ selection = [years_covered |-> <<2022>>,
                        reports |-> << [year |-> 2022,
                                        best |-> <<AnnualReport2022>>,
                                        secondary |-> <<>>] >>]

\* C21: a fetched URL without a .pdf/.xlsx extension whose Content-Type names
\* a PDF or a spreadsheet, that is not quarterly and has an annual/financial
\* keyword in its URL, is accepted by _is_annual_report and recorded as a
\* candidate document.
C21_ContentTypeCandidate ==
    ( /\ pc = "checked" /\ last = "ok"
      /\ checked_url.ext \notin {"pdf", "xlsx"}
      /\ AnyKeywordIn({"pdf", "excel", "spreadsheet"}, checked_headers.content_type)
      /\ ~is_quarter_report(NoLink, checked_url)
      /\ AnyKeywordIn(get_annual_keywords, UrlText(checked_url)) )
    => /\ is_annual_report(<<>>, checked_url, FilenameOfUrl(checked_url), NoLink)
       /\ \E i \in 1..Len(found_documents) :
             /\ found_documents[i].url = checked_url
             /\ found_documents[i].title = FilenameOfUrl(checked_url)

\* the tickers of the companies search_all_companies is done with
SearchedTickers == { companies[i].ticker : i \in 1..searched }

\* C22: a company whose crawl yields no candidate, or whose search raises,
\* does not abort the batch: every company is searched, the result has an
\* entry for every ticker, and the entry of such a company is
\* {years_covered: [], reports: []}.
C22_BatchSurvivesEmptyCompany ==
    /\ pc # "aborted"
    /\ DOMAIN all_selections = SearchedTickers
    /\ pc = "returned" => searched = Len(companies)
    /\ (searched > 0 /\ (last = "exception" \/ result = <<>>)) =>
          all_selections[companies[searched].ticker] = NoSelection

\* C22 witness: the search of the first of three companies raised or found
\* nothing, the last one has a selection, and the batch returned all entries.
C22_Witness ==
    /\ pc = "returned"
    /\ Len(companies) = 3
    /\ companies[1].ticker = "aaa" /\ companies[2].ticker = "aaa"
    /\ companies[3].ticker = "bbb"
    /\ all_selections["aaa"] = NoSelection
    /\ all_selections["bbb"].years_covered = <<2021, 2022>>

\* C23: the list a crawl returned is handed over by value: a later crawl on
\* the same crawler, which resets queue, visited set and found documents,
\* leaves that list and the documents in it unchanged.
C23_ReturnedListKept ==
    [][ (pc = "done" /\ pc' = "crawling") => result' = result ]_vars

\* the step is a call of _process_url_from_queue in which a request for the
\* URL at the head of the queue got no response
SomeRequestFailed ==
    /\ pc = "crawling" /\ url_queue # <<>>
    /\ \E in \in PageInputs :
          LET url == Head(url_queue).url
              r1 == make_request(url, in.o1, problematic_urls)
              r2 == make_request(url, in.o2, r1.problematic)
              p == process_url_from_queue(url, Head(url_queue).depth, in.o1,
                       in.parse_raises, in.o2, in.soup, in.headers, found_documents,
                       Tail(url_queue), visited_urls, problematic_urls, base_domain,
                       max_depth)
          IN  /\ found_documents' = p.found /\ url_queue' = p.queue
              /\ problematic_urls' = p.problematic /\ last' = p.status
              /\ requests' = Requested(url, p.requested)
              /\ ~r1.response \/ (p.requested = 2 /\ ~r2.response)
              /\ in.o1[1] # "ok" \/ in.o2[1] # "ok"

\* C24: the known-bad URL set only grows, the reset of a crawl empties queue,
\* visited set and found documents but keeps the known-bad set, and a URL
\* enters the set only in a step in which a request for it failed.
C24_KnownBadMonotonic ==
    [][ /\ problematic_urls \subseteq problematic_urls'
        /\ (pc # "crawling" /\ pc' = "crawling") =>
              /\ Len(url_queue') = 1 /\ url_queue'[1].depth = 0
              /\ visited_urls' = {} /\ found_documents' = <<>>
              /\ base_domain' = extract_base_domain(url_queue'[1].url)
              /\ problematic_urls' = problematic_urls
        /\ problematic_urls' # problematic_urls =>
              /\ pc = "crawling" /\ url_queue # <<>>
              /\ problematic_urls' = problematic_urls \cup {Head(url_queue).url}
              /\ SomeRequestFailed
      ]_vars

\* C24 witness: the second crawl has just been reset and the URL that failed
\* in the first crawl is still known bad.
C24_Witness ==
    /\ crawls = 2 /\ pc = "crawling"
    /\ visited_urls = {} /\ found_documents = <<>> /\ Len(url_queue) = 1
    /\ problematic_urls = {InvestorsUrl}

SortedByDepth(queue) ==
    \A i, j \in 1..Len(queue) : i < j => queue[i].depth <= queue[j].depth

\* C25: the queue is FIFO and its depths never decrease from head to tail,
\* so the depths of the pages taken from it never decrease during a crawl.
C25_BreadthFirst ==
    [][ /\ SortedByDepth(url_queue) /\ SortedByDepth(url_queue')
        /\ (pc = "crawling" /\ pc' = "crawling" /\ url_queue # <<>> /\ url_queue' # <<>>) =>
              /\ Head(url_queue).depth <= Head(url_queue').depth
              /\ \A i \in 1..Len(url_queue') :
                    \/ (i <= Len(url_queue) - 1 /\ url_queue'[i] = url_queue[i + 1])
                    \/ (i > Len(url_queue) - 1
                         /\ url_queue'[i].depth = Head(url_queue).depth + 1)
      ]_vars

\* C25 witness: a page of depth 1 was processed while another page of depth 1
\* waited; the links it gave stand behind that page with depth 2.
C25_Witness ==
    /\ pc = "crawling" /\ last = "ok"
    /\ Len(url_queue) >= 3
    /\ url_queue[1].depth = 1
    /\ url_queue[2].depth = 2 /\ url_queue[3].depth = 2

\* C26: within a crawl a URL is given to _process_url_from_queue at most
\* once: a dequeued URL that is visited is skipped without a request, and a
\* processed URL is in the visited set right after its processing, whether or
\* not its fetch succeeded.
C26_ProcessedAtMostOnce ==
    [][ (pc = "crawling" /\ url_queue # <<>>) =>
          LET url == Head(url_queue).url
          IN  /\ url \in visited_urls =>
                    /\ requests' = requests
                    /\ UNCHANGED <<visited_urls, found_documents, problematic_urls>>
              /\ url \notin visited_urls =>
                    /\ Count(url) = 0
                    /\ requests' = Requested(url, requests'[url])
                    /\ requests'[url] \in {1, 2}
                    /\ pc' = "crawling" => visited_urls' = visited_urls \cup {url}
      ]_vars

\* C26 witness: the fetch of a page failed, the page is visited all the same,
\* and a later entry of the queue for a visited URL was skipped.
C26_Witness ==
    /\ pc = "crawling" /\ last = "skipped"
    /\ \E u \in visited_urls : requests[u] = 1 /\ u \in problematic_urls

\* C28: during a crawl a URL is appended to the queue at most once: the queue
\* never holds two entries for one URL nor an entry for a visited URL.
C28_QueuedAtMostOnce ==
    /\ \A i, j \in 1..Len(url_queue) : url_queue[i].url = url_queue[j].url => i = j
    /\ \A i \in 1..Len(url_queue) : url_queue[i].url \notin visited_urls

\* C27: the secondaries are a fallback pool: when the content of a year's
\* best document cannot be extracted, a secondary of that year is tried, so
\* a year with an extractable secondary still yields a processed document.
C27_SecondaryFallback ==
    pc = "processed" =>
        \A k \in 1..Len(selection.reports) :
            LET year_data == selection.reports[k]
            IN  ( /\ year_data.best # <<>>
                  /\ year_data.best[1].url \notin extractable
                  /\ \E i \in 1..Len(year_data.secondary) :
                        year_data.secondary[i].url \in extractable )
                => \E n \in 1..Len(processed_documents) :
                      processed_documents[n].year = year_data.year

\* the programs run one after the other from the resume index on
RunInOrder ==
    \A k \in 1..Len(program_results) :
        program_results[k].program = start_index(resume_from) + k - 1

\* no program was started after a failed one
NoneAfterFailure ==
    \A k \in 1..(Len(program_results) - 1) : program_results[k].success

\* execute_pipeline has left its loop
LoopOver == pc \in {"reporting", "returned", "exited"} /\ prereq_success

\* C29 as stated: the programs run in order from the resume index, and once
\* a program fails no later program is started, whatever resume_from is.
C29_StopsAtFirstFailure ==
    RunInOrder /\ NoneAfterFailure

\* C29 amended: the programs run in order from the resume index; once a
\* program fails no later one is started when resume_from is none or 0;
\* with resume_from 1, 2 or 3 every program from the resume index on is
\* started, whether or not an earlier one failed.
C29_StopsUnlessResuming ==
    /\ RunInOrder
    /\ NotResuming(resume_from) =>
          /\ NoneAfterFailure
          /\ LoopOver =>
                \/ Len(program_results) = total_programs
                \/ ~program_results[Len(program_results)].success
    /\ (~NotResuming(resume_from) /\ LoopOver) =>
          Len(program_results) = total_programs - resume_from

\* C29 witness: a full run in which the second program failed: the third
\* and fourth were never started.
C29_Witness ==
    /\ pc = "exited" /\ resume_from = NoResume
    /\ Len(program_results) = 2
    /\ program_results[1].success /\ ~program_results[2].success

\* C30: execute_pipeline returns success, and main exits with status 0,
\* exactly when every program it ran succeeded (also when resumed from a
\* later program), and ends in failure (status 1) exactly when a program
\* that ran failed or the prerequisites check failed.
C30_SuccessIffAllExecutedSucceeded ==
    pc = "exited" =>
        LET all_succeeded == /\ prereq_success
                             /\ \A k \in 1..Len(program_results) :
                                   program_results[k].success
        IN  /\ (pipeline_return = "true" /\ exit_status = 0) <=> all_succeeded
            /\ (pipeline_return # "true" /\ exit_status = 1) <=> ~all_succeeded

====
